---- MODULE Spec2Model ----
(***************************************************************************)
(* A model of src/src/connection.rs: the D-Bus client Connection (the     *)
(* handshake, send, call_sync, read_msg and the frame reader).            *)
(***************************************************************************)
EXTENDS Integers, Sequences, FiniteSets, TLC

\* ------------------------------------------------------------ bounds
\* frames fully read from the transport in one behaviour
MaxFrames == 3
\* invocations of send that pass the length check in one behaviour
MaxSends == 3
\* characters of the peer's authentication response that are enumerated
MaxLine == 5
\* width of next_serial in the model (u32 in the source)
SerialBits == 2
\* width of the length arithmetic of send in the model (u32 in the source)
LenBits == 6
\* largest ReplySerial value the peer puts in a frame
MaxReplySerial == 2
\* longest header array the frame reader is given, in bytes
MaxArrayLen == 8

\* ------------------------------------------------------------ program constants
\* HeaderFieldName::ReplySerial as u8 and HeaderFieldName::Signature as u8
ReplySerial == 5
Signature == 8
\* a minimum header with no body
MinHeader == 16
\* the fixed part of the header, and the length word of the header array
FixedHeader == 12
ArrayLenWord == 4

SerialMod == 2 ^ SerialBits
LenMod == 2 ^ LenBits

Min(a, b) == IF a < b THEN a ELSE b

\* ------------------------------------------------------------ values
\* A Value is modelled by its type and its content.
U32(n) == [t |-> "u", v |-> n]
Str(n) == [t |-> "s", v |-> n]
Sig(n) == [t |-> "g", v |-> n]

\* The outcomes of integer overflow: a panic (overflow checks on) or a wrap.
Builds == {"checked", "wrapping"}

\* ------------------------------------------------------------ read_line
\* The peer's response: the characters it sends before the stream ends
\* (end = "eof"), fails (end = "err") or goes on (end = "more").
Alphabet == {"O", "K", "SP", "CR", "LF"}

RECURSIVE SeqsUpTo(_, _)
SeqsUpTo(S, n) ==
    IF n = 0 THEN {<<>>}
    ELSE LET shorter == SeqsUpTo(S, n - 1)
         IN  shorter \cup {Append(s, c) : s \in {x \in shorter : Len(x) = n - 1}, c \in S}

HasCRLF(chars) == \E i \in 1..(Len(chars) - 1) : chars[i] = "CR" /\ chars[i + 1] = "LF"

\* A response that goes on holds a terminator: read_line blocks otherwise.
AuthResponses ==
    {[chars |-> c, end |-> e] : c \in SeqsUpTo(Alphabet, MaxLine), e \in {"eof", "err", "more"}}
    \ {r \in [chars : SeqsUpTo(Alphabet, MaxLine), end : {"more"}] : ~HasCRLF(r.chars)}

RECURSIVE read_line_loop(_, _, _, _)
read_line_loop(resp, i, line, last) ==
    IF i > Len(resp.chars)
    THEN [res |-> "Disconnected", line |-> line, used |-> i - 1]
    ELSE LET chr == resp.chars[i]
             line2 == Append(line, chr)
         IN  IF chr = "LF" /\ last = "CR"
             THEN [res |-> "Ok", line |-> line2, used |-> i]
             ELSE read_line_loop(resp, i + 1, line2, chr)

\* read_line with the end of the stream taken as the end of the line
read_line_eof_ok(resp) ==
    LET r == read_line_loop(resp, 1, <<>>, "NUL")
    IN  [r EXCEPT !.res = "Ok"]

read_line(resp) == read_line_loop(resp, 1, <<>>, "NUL")

\* starts_with that looks at "OK" alone
starts_with_OK_short(line) ==
    /\ Len(line) >= 2
    /\ line[1] = "O" /\ line[2] = "K"

starts_with_OK(line) ==
    /\ Len(line) >= 3
    /\ line[1] = "O" /\ line[2] = "K" /\ line[3] = "SP"

\* ------------------------------------------------------------ frames and messages
\* An incoming frame as the peer puts it on the wire: the fields of its header
\* array (a sequence of <<code, value>> pairs, n bytes long), the body length
\* its fixed header declares, the values its body bytes hold, and whether the
\* header array and the body demarshal.
MessageTypeOf(fields) ==
    IF \E i \in DOMAIN fields : fields[i][1] = ReplySerial THEN 2 ELSE 4

Frame(fields, n, body_len, body, hdrOk, bodyOk) ==
    [fields |-> fields, n |-> n, body_len |-> body_len, body |-> body,
     hdrOk |-> hdrOk, bodyOk |-> bodyOk,
     message_type |-> MessageTypeOf(fields), flags |-> 0]

\* msg.headers.insert(code, val) for each field in turn: the last one wins.
HeaderMap(fields) ==
    [c \in {fields[i][1] : i \in DOMAIN fields} |->
        LET last == CHOOSE i \in DOMAIN fields :
                        /\ fields[i][1] = c
                        /\ \A j \in DOMAIN fields : fields[j][1] = c => j <= i
        IN  fields[last][2]]

\* a lookup that leaves the field in the map
RemoveHeader_keep(headers, code) == headers

\* headers.remove(code)
RemoveHeader(headers, code) == [c \in (DOMAIN headers) \ {code} |-> headers[c]]

\* sock.take(len).read_to_end(buf): the bytes read when the stream still
\* holds avail bytes before its end (eof), or does not end (~eof).
TakeRead(eof, avail, len) == IF eof THEN Min(IF avail > 0 THEN avail ELSE 0, len) ELSE len

\* read_exactly without the comparison of the count read
read_exactly_short(eof, avail, len) ==
    [res |-> "Ok", got |-> TakeRead(eof, avail, len)]

read_exactly(eof, avail, len) ==
    LET got == TakeRead(eof, avail, len)
    IN  [res |-> IF got # len THEN "Disconnected" ELSE "Ok", got |-> got]

NoMsg == <<>>
ReadFail(res, consumed) == [res |-> res, msg |-> NoMsg, consumed |-> consumed]

\* a reader that takes a body without a signature as an empty body
read_body_lenient(f, headers, serial, eof, avail, ioerrAt, after) ==
    [res |-> "Ok",
     msg |-> <<[message_type |-> f.message_type, flags |-> f.flags,
                serial |-> serial, headers |-> headers, body |-> <<>>]>>,
     consumed |-> after]

\* The body of a frame whose header and padding are read (after bytes so far).
read_body(f, headers, serial, eof, avail, ioerrAt, after) ==
    LET msg == [message_type |-> f.message_type, flags |-> f.flags,
                serial |-> serial, headers |-> headers, body |-> <<>>]
    IN
    IF f.body_len > 0
    THEN IF Signature \notin DOMAIN headers
         THEN ReadFail("DemarshalError", after)
         ELSE IF headers[Signature].t # "g"
         THEN ReadFail("DemarshalError", after)
         ELSE IF ioerrAt = 5
         THEN ReadFail("IOError", after)
         ELSE LET r5 == read_exactly(eof, avail - after, f.body_len)
              IN  IF r5.res # "Ok"
                  THEN ReadFail("Disconnected", after + r5.got)
                  ELSE IF ~f.bodyOk
                  THEN ReadFail("DemarshalError", after + f.body_len)
                  ELSE [res |-> "Ok", msg |-> <<[msg EXCEPT !.body = f.body]>>,
                        consumed |-> after + f.body_len]
    ELSE [res |-> "Ok", msg |-> <<msg>>, consumed |-> after]

\* a reader that always reads 8 - offset % 8 bytes of padding
read_padding_always(f, headers, serial, eof, avail, ioerrAt, offset) ==
    LET trailing_pad == 8 - (offset % 8)
        r4 == read_exactly(eof, avail - offset, trailing_pad)
    IN  IF r4.res # "Ok"
        THEN ReadFail("Disconnected", offset + r4.got)
        ELSE read_body(f, headers, serial, eof, avail, ioerrAt, offset + trailing_pad)

\* The padding that follows the header array, then the body.
read_padding(f, headers, serial, eof, avail, ioerrAt, offset) ==
    LET trailing_pad == 8 - (offset % 8)
    IN  IF trailing_pad % 8 # 0
        THEN IF ioerrAt = 4
             THEN ReadFail("IOError", offset)
             ELSE LET r4 == read_exactly(eof, avail - offset, trailing_pad)
                  IN  IF r4.res # "Ok"
                      THEN ReadFail("Disconnected", offset + r4.got)
                      ELSE read_body(f, headers, serial, eof, avail, ioerrAt,
                                     offset + trailing_pad)
        ELSE read_body(f, headers, serial, eof, avail, ioerrAt, offset)

\* read_msg on an empty queue: one frame read from the transport.
read_frame(f, serial, eof, avail, ioerrAt) ==
    IF ioerrAt = 1 THEN ReadFail("IOError", 0)
    ELSE
    LET r1 == read_exactly(eof, avail, FixedHeader)
    IN
    IF r1.res # "Ok" THEN ReadFail("Disconnected", r1.got)
    ELSE IF ioerrAt = 2 THEN ReadFail("IOError", FixedHeader)
    ELSE
    LET r2 == read_exactly(eof, avail - FixedHeader, ArrayLenWord)
        prefix == FixedHeader + ArrayLenWord
    IN
    IF r2.res # "Ok" THEN ReadFail("Disconnected", FixedHeader + r2.got)
    ELSE IF ioerrAt = 3 THEN ReadFail("IOError", prefix)
    ELSE
    LET arr_len == f.n
        got == TakeRead(eof, avail - prefix, arr_len)
    IN
    IF got # arr_len THEN ReadFail("Disconnected", prefix + got)
    ELSE IF ~f.hdrOk THEN ReadFail("DemarshalError", prefix + arr_len)
    ELSE read_padding(f, HeaderMap(f.fields), serial, eof, avail, ioerrAt,
                      prefix + arr_len)

\* The bytes of a whole frame.
FrameLen(f) ==
    LET offset == FixedHeader + ArrayLenWord + f.n
    IN  offset + ((8 - (offset % 8)) % 8) + f.body_len

\* ------------------------------------------------------------ send
\* A MessageBuf: its total length, the value its length field holds, the value
\* its serial field holds and the rest of its bytes (tag: "m" and "Hello" are
\* METHOD_CALLs that expect a reply, "signal" is a SIGNAL, "no_reply" is a
\* METHOD_CALL with the NO_REPLY_EXPECTED flag).
MsgBuf(len, lenf, tag) == [len |-> len, lenf |-> lenf, serf |-> 0, tag |-> tag]

\* message::get_length and message::set_length
get_length(msg) == msg.lenf
set_length(msg, len, serial) == [msg EXCEPT !.lenf = len, !.serf = serial]

\* a length check that is off by one
too_small_15(len) == len < MinHeader - 1

\* the length check of send
too_small(len) == len < MinHeader

\* the body length without the subtraction
body_length_total(len0, old_len) == len0 % LenMod

\* len -= old_len, on unsigned integers
body_length(len0, old_len) == (len0 - old_len) % LenMod

\* a counter that is not advanced
next_after_stuck(ns) == ns % SerialMod

\* self.next_serial += 1
next_after(ns) == (ns + 1) % SerialMod

\* send on a connection whose counter is ns; wok: the transport takes the
\* write; build: what an integer overflow does.
send(ns, mbuf, wok, build) ==
    LET msg == mbuf
        len0 == msg.len
        Stop(res) == [res |-> res, ret |-> 0, next_serial |-> ns, buf |-> mbuf,
                      wrote |-> <<>>, passed |-> res # "BadData"]
    IN
    IF too_small(len0) THEN Stop("BadData")
    ELSE
    LET old_len == get_length(msg)
    IN
    IF old_len > len0 /\ build = "checked" THEN Stop("panic")
    ELSE
    LET len == body_length(len0, old_len)
        this_serial == ns
    IN
    IF ns + 1 >= SerialMod /\ build = "checked" THEN Stop("panic")
    ELSE
    LET msg2 == set_length(msg, len, this_serial)
    IN  [res |-> IF wok THEN "Ok" ELSE "IOError",
         ret |-> this_serial,
         next_serial |-> next_after(ns),
         buf |-> msg2,
         wrote |-> IF wok THEN <<msg2>> ELSE <<>>,
         passed |-> TRUE]

\* ------------------------------------------------------------ call_sync
\* reply_serial == serial, on the u32 the ReplySerial field holds
\* One turn of the loop of call_sync on the message read_msg returned, with the
\* connection's queue as read_msg left it.
\* a match on any ReplySerial
is_reply_any(obj, serial) == obj.t = "u"

is_reply(obj, serial) == obj.v = serial

\* a loop that takes the first message it reads as the reply
call_sync_turn_first(msg, serial, lq, q) ==
    [res |-> "Ok", body |-> msg.body, lq |-> <<>>, queue |-> q \o lq]

call_sync_turn(msg, serial, lq, q) ==
    LET found == ReplySerial \in DOMAIN msg.headers
        msg2 == [msg EXCEPT !.headers = RemoveHeader(@, ReplySerial)]
        skip == [res |-> "loop", body |-> <<>>, lq |-> Append(lq, msg2), queue |-> q]
    IN
    IF found
    THEN LET obj == msg.headers[ReplySerial]
         IN  IF obj.t # "u"
             THEN [res |-> "panic", body |-> <<>>, lq |-> lq, queue |-> q]
             ELSE IF is_reply(obj, serial)
             THEN [res |-> "Ok", body |-> msg2.body, lq |-> <<>>, queue |-> q \o lq]
             ELSE skip
    ELSE skip

\* a say_hello that takes any reply
say_hello_any(body) == "Ok"

\* say_hello on the body call_sync returned
say_hello(body) ==
    IF Len(body) > 0 /\ body[1].t = "s" THEN "Ok" ELSE "BadData"

\* ------------------------------------------------------------ inputs
\* The bytes of a header array: 8 for a ReplySerial field, 5 for a Signature.
ArrayLen(fields) ==
    LET ByteLen(i) == IF fields[i][1] = ReplySerial THEN 8 ELSE 5
        F[i \in 0..Len(fields)] == IF i = 0 THEN 0 ELSE F[i - 1] + ByteLen(i)
    IN  F[Len(fields)]

\* [sig: the Signature field, if any; body_len; body; hdrOk; bodyOk]
Shape(sig, body_len, body, hdrOk, bodyOk) ==
    [sig |-> sig, body_len |-> body_len, body |-> body, hdrOk |-> hdrOk, bodyOk |-> bodyOk]

Empty == Shape(<<>>, 0, <<>>, TRUE, TRUE)
OneString == Shape(<<<<Signature, Sig(1)>>>>, 4, <<Str(1)>>, TRUE, TRUE)
OneU32 == Shape(<<<<Signature, Sig(2)>>>>, 4, <<U32(7)>>, TRUE, TRUE)

FrameOf(rf, sh) ==
    Frame(rf \o sh.sig, ArrayLen(rf \o sh.sig), sh.body_len, sh.body, sh.hdrOk, sh.bodyOk)

ReplyTo(k) == <<<<ReplySerial, U32(k)>>>>

\* The frames the peer sends: signals, replies, and a frame whose ReplySerial
\* field holds a string.
WireFrames ==
    {FrameOf(<<>>, Empty), FrameOf(<<>>, OneU32),
     FrameOf(<<<<ReplySerial, Str(0)>>>>, Empty)}
    \cup {FrameOf(ReplyTo(k), sh) : k \in 1..MaxReplySerial, sh \in {OneString, OneU32}}

\* A frame whose header array does not demarshal.
BadArrayFrame == FrameOf(ReplyTo(1), Shape(<<>>, 0, <<>>, FALSE, TRUE))
CutFrame == FrameOf(ReplyTo(1), OneString)

Input(f, eof, avail, ioerrAt) == [f |-> f, eof |-> eof, avail |-> avail, ioerrAt |-> ioerrAt]

\* What the transport holds when read_msg reads it: a whole frame, a frame in
\* which the stream ends, a frame that does not demarshal, a read that fails.
TransportInputs ==
    {Input(f, FALSE, 0, 0) : f \in WireFrames}
    \cup {Input(BadArrayFrame, FALSE, 0, 0), Input(CutFrame, TRUE, 20, 0),
          Input(CutFrame, FALSE, 0, 1)}

\* The frames read during the Hello call: those of TransportInputs and a
\* reply to the Hello with an empty body.
HelloInputs == TransportInputs \cup {Input(FrameOf(ReplyTo(1), Empty), FALSE, 0, 0)}

\* The frame reader's inputs: header arrays of every length up to MaxArrayLen,
\* with and without a body and a Signature field, whole or cut short by the
\* end of the stream after any number of bytes, or with a read that fails.
CodecFields == {<<>>, <<<<Signature, Sig(1)>>>>, <<<<Signature, Str(0)>>>>}

CodecFrames ==
    {Frame(fields, n, body_len, IF body_len > 0 THEN <<Str(1)>> ELSE <<>>, TRUE, TRUE) :
        fields \in CodecFields, n \in 0..MaxArrayLen, body_len \in {0, 4}}
    \cup {Frame(<<>>, n, 0, <<>>, FALSE, TRUE) : n \in 0..MaxArrayLen}
    \cup {Frame(<<<<Signature, Sig(1)>>>>, n, 4, <<Str(1)>>, TRUE, FALSE) : n \in 0..MaxArrayLen}

CodecInputs ==
    {Input(f, FALSE, 0, 0) : f \in CodecFrames}
    \cup UNION {{Input(f, TRUE, a, 0) : a \in 0..FrameLen(f)} : f \in CodecFrames}
    \cup {Input(Frame(<<<<Signature, Sig(1)>>>>, n, 4, <<Str(1)>>, TRUE, TRUE), FALSE, 0, k) :
            n \in 0..MaxArrayLen, k \in 1..5}

\* The buffers handed to send.
MsgBufs == {MsgBuf(len, lenf, "m") : len \in {15, 16, 24}, lenf \in {0, 16, 24, 32}}
\* buffers call_sync is documented to refuse
NonCallBufs == {MsgBuf(24, 24, "signal"), MsgBuf(24, 24, "no_reply")}
FewBufs == {MsgBuf(24, 24, "m"), MsgBuf(15, 0, "m")}
HelloBuf == MsgBuf(24, 24, "Hello")

\* The responses to AUTH: accepted, rejected, and a stream that ends.
Line(chars) == [chars |-> chars, end |-> "more"]
FewResponses ==
    {Line(<<"O", "K", "SP", "CR", "LF">>), Line(<<"K", "O", "CR", "LF">>),
     [chars |-> <<"O", "K", "SP">>, end |-> "eof"]}

\* ------------------------------------------------------------ state
VARIABLES
    conn,         \* where the connection is: "start" (connect_system or
                  \* connect_session is called), "new", "open", "nul", "sent", "auth",
                  \* "hello", "ready", "failed" (connect returned Err), "panic"
    sock,         \* the Socket variant: "Uds" or "Tcp" ("none": no socket yet)
    next_serial,  \* Connection.next_serial
    queue,        \* Connection.queue
    cs,           \* the call_sync in progress: its serial and its local queue
    out,          \* what was written to the transport, in order
    closed,       \* the incoming stream has ended
    wire,         \* what the incoming stream holds next, when that is fixed in
                  \* advance (<<>>: whatever the peer sends when it is read)
    arrived,      \* the number of messages read from the transport so far
    orig,         \* the messages read from the transport and neither handed to the
                  \* caller of read_msg nor taken as a reply, as they were read,
                  \* by serial (the peer numbers its messages in order)
    nsends,       \* the sends that passed the length check
    last          \* the last operation and its result

vars == <<conn, sock, next_serial, queue, cs, out, closed, wire, arrived, orig, nsends, last>>

Idle == [active |-> FALSE, caller |-> "none", serial |-> 0, lq |-> <<>>]

Last(op, res) ==
    [op |-> op, res |-> res, ret |-> 0, msg |-> <<>>, body |-> <<>>, arg |-> <<>>,
     buf |-> <<>>, wrote |-> <<>>, consumed |-> 0, wire |-> FALSE, line |-> <<>>,
     call |-> "none", orig |-> <<>>, input |-> <<>>]

Wrote(k, mech, serial) == [k |-> k, mech |-> mech, serial |-> serial]

Init ==
    /\ conn = "new"
    /\ sock \in {"Uds", "Tcp"}
    /\ next_serial = 1
    /\ queue = <<>>
    /\ cs = Idle
    /\ out = <<>>
    /\ closed = FALSE
    /\ wire = <<>>
    /\ arrived = 0
    /\ orig = <<>>
    /\ nsends = 0
    /\ last = Last("none", "none")

\* ------------------------------------------------------------ the entry points
\* The value of an environment variable: Unset, or the address string it holds.
Unset == "unset"
DefaultSystemAddress == "unix:path=/var/run/dbus/system_bus_socket"
UnixAddresses == {DefaultSystemAddress, "unix:path=/tmp/session_bus"}
EnvValues == UnixAddresses \cup {Unset, "tcp:host=localhost,port=4000", "nothing"}

\* ServerAddress::from_str: the addresses of the one kind ServerAddress has
from_str(addr) ==
    IF addr \in UnixAddresses THEN [res |-> "Ok", kind |-> "Unix"]
    ELSE [res |-> "AddressError", kind |-> "none"]

\* Connection::connect and connect_addr, up to the call of connect_uds
connect(addr) ==
    LET a == from_str(addr)
    IN  IF a.res # "Ok" THEN [res |-> "AddressError", addr |-> <<addr>>, sock |-> "none"]
        ELSE [res |-> "Ok", addr |-> <<addr>>, sock |-> "Uds"]

connect_system(env) ==
    IF env # Unset THEN connect(env) ELSE connect(DefaultSystemAddress)

\* a connect_session that falls back to the address of the system bus
connect_session_fallback(env) ==
    IF env # Unset THEN connect(env) ELSE connect(DefaultSystemAddress)

connect_session(env) ==
    IF env # Unset THEN connect(env)
    ELSE [res |-> "NoEnvironment", addr |-> <<>>, sock |-> "none"]

\* ------------------------------------------------------------ connect
\* connect_system or connect_session, up to the call of connect_uds
connect_entry ==
    /\ conn = "start"
    /\ \E entry \in {"connect_system", "connect_session"}, env \in EnvValues :
        LET r == IF entry = "connect_session" THEN connect_session(env)
                 ELSE connect_system(env)
        IN  /\ conn' = IF r.res = "Ok" THEN "new" ELSE "failed"
            /\ sock' = r.sock
            /\ last' = [Last(entry, r.res) EXCEPT !.arg = <<[env |-> env, addr |-> r.addr]>>]
    /\ UNCHANGED <<next_serial, queue, cs, out, closed, wire, arrived, orig, nsends>>

\* UnixStream::connect / TcpStream::connect, and the Connection built on it
connect_open ==
    /\ conn = "new"
    /\ \E ok \in BOOLEAN :
        /\ conn' = IF ok THEN "open" ELSE "failed"
        /\ last' = Last("connect", IF ok THEN "Ok" ELSE "IOError")
    /\ UNCHANGED <<sock, next_serial, queue, cs, out, closed, wire, arrived, orig, nsends>>

send_nul_byte ==
    /\ conn = "open"
    /\ \E wok \in BOOLEAN :
        /\ conn' = IF wok THEN "nul" ELSE "failed"
        /\ out' = IF wok THEN Append(out, Wrote("NUL", "", 0)) ELSE out
        /\ last' = Last("send_nul_byte", IF wok THEN "Ok" ELSE "IOError")
    /\ UNCHANGED <<sock, next_serial, queue, cs, closed, wire, arrived, orig, nsends>>

\* the mechanisms the other way round
Mechanism_swapped(s) == IF s = "Uds" THEN "ANONYMOUS" ELSE "EXTERNAL"

\* auth_external on a Unix socket, auth_anonymous on a TCP socket
Mechanism(s) == IF s = "Uds" THEN "EXTERNAL" ELSE "ANONYMOUS"

\* the values getuid() may return
Uids == {0, 7, 10, 1000, 65534}

\* uid.to_string(): the decimal digits of the uid
RECURSIVE to_string(_)
to_string(n) == IF n < 10 THEN <<n>> ELSE Append(to_string(n \div 10), n % 10)

\* into_bytes().to_hex(): the character of digit d is the byte 0x30 + d, which
\* is written as the two hex digits "3" and d
HexChars == <<"0", "1", "2", "3", "4", "5", "6", "7", "8", "9">>
RECURSIVE to_hex(_)
to_hex(digits) ==
    IF digits = <<>> THEN <<>>
    ELSE <<"3", HexChars[Head(digits) + 1]>> \o to_hex(Tail(digits))

\* the AUTH line of auth_external (with the uid) or of auth_anonymous
auth_line(s, uid) ==
    IF Mechanism(s) = "EXTERNAL"
    THEN [mech |-> "EXTERNAL", arg |-> to_hex(to_string(uid))]
    ELSE [mech |-> "ANONYMOUS", arg |-> <<"6c69626462757320312e382e3132">>]

\* the rest of auth_* once the AUTH line is written
auth_response(resp, wok) ==
    LET r == read_line(resp)
    IN  IF r.res # "Ok" THEN [res |-> r.res, line |-> r.line, begin |-> FALSE]
        ELSE IF ~starts_with_OK(r.line) THEN [res |-> "AuthFailed", line |-> r.line, begin |-> FALSE]
        ELSE IF ~wok THEN [res |-> "IOError", line |-> r.line, begin |-> FALSE]
        ELSE [res |-> "Ok", line |-> r.line, begin |-> TRUE]

auth_write ==
    /\ conn = "nul"
    /\ \E wok \in BOOLEAN, uid \in (IF sock = "Uds" THEN Uids ELSE {0}) :
        LET line == auth_line(sock, uid)
        IN  /\ conn' = IF wok THEN "sent" ELSE "failed"
            /\ out' = IF wok THEN Append(out, Wrote("AUTH", line.mech, 0)) ELSE out
            /\ last' = [Last("auth", IF wok THEN "Ok" ELSE "IOError") EXCEPT
                            !.ret = uid, !.wrote = IF wok THEN <<line>> ELSE <<>>]
    /\ UNCHANGED <<sock, next_serial, queue, cs, closed, wire, arrived, orig, nsends>>

auth_read(resps) ==
    /\ conn = "sent"
    /\ \E resp \in resps, wok \in BOOLEAN :
        LET a == auth_response(resp, wok)
        IN  /\ conn' = IF a.res = "Ok" THEN "auth" ELSE "failed"
            /\ out' = IF a.begin THEN Append(out, Wrote("BEGIN", "", 0)) ELSE out
            /\ last' = [Last("auth", a.res) EXCEPT !.line = a.line, !.arg = <<resp>>]
    /\ UNCHANGED <<sock, next_serial, queue, cs, closed, wire, arrived, orig, nsends>>

\* A peer that answers the call in progress, or ends the stream.
ReplyInputs ==
    {Input(FrameOf(ReplyTo(cs.serial), OneString), FALSE, 0, 0), Input(CutFrame, TRUE, 0, 0)}

\* What ends a call_sync: its reply, the end of the stream, a read that fails.
EndingInputs == ReplyInputs \cup {Input(CutFrame, FALSE, 0, 1)}

\* What a call_sync may read: signals, replies to any serial, a frame that
\* does not demarshal, and what ends it.
LiveInputs ==
    {Input(FrameOf(<<>>, Empty), FALSE, 0, 0), Input(FrameOf(<<>>, OneU32), FALSE, 0, 0),
     Input(BadArrayFrame, FALSE, 0, 0)}
    \cup {Input(FrameOf(ReplyTo(k), OneString), FALSE, 0, 0) : k \in 1..MaxReplySerial}
    \cup EndingInputs

\* ------------------------------------------------------------ read_msg
\* What the transport can hold at this read.
InputsNow(inputs) ==
    IF closed THEN {Input(CutFrame, TRUE, 0, 0)}
    ELSE IF wire # <<>> THEN {wire[1]}
    ELSE {i \in inputs :
            arrived < MaxFrames
            \/ read_frame(i.f, arrived + 1, i.eof, i.avail, i.ioerrAt).res # "Ok"}

\* a pop of the newest message
queue_pop_newest(q) == [msg |-> q[Len(q)], rest |-> SubSeq(q, 1, Len(q) - 1)]

\* self.queue.remove(0)
queue_pop(q) == [msg |-> q[1], rest |-> Tail(q)]

\* read_msg: the oldest queued message, or else a frame from the transport.
read_msg(q, i) ==
    IF Len(q) > 0
    THEN [res |-> "Ok", msg |-> <<queue_pop(q).msg>>, queue |-> queue_pop(q).rest,
          consumed |-> 0, wire |-> FALSE, closed |-> closed]
    ELSE LET r == read_frame(i.f, arrived + 1, i.eof, i.avail, i.ioerrAt)
         IN  [res |-> r.res, msg |-> r.msg, queue |-> q, consumed |-> r.consumed,
              wire |-> TRUE, closed |-> (closed \/ i.eof \/ r.res = "IOError")]

Arrived(r) == IF r.wire /\ r.res = "Ok" THEN arrived + 1 ELSE arrived

\* orig with the message just read from the transport, if any
Noted(r) ==
    IF r.wire /\ r.res = "Ok"
    THEN [k \in (DOMAIN orig) \cup {r.msg[1].serial} |->
            IF k = r.msg[1].serial THEN r.msg[1] ELSE orig[k]]
    ELSE orig

\* the message read_msg returned, as it was read from the transport
OrigOf(r) == IF r.res = "Ok" THEN <<Noted(r)[r.msg[1].serial]>> ELSE <<>>

Without(f, k) == [j \in (DOMAIN f) \ {k} |-> f[j]]

\* ------------------------------------------------------------ operations
Usable == conn = "ready" /\ ~cs.active

\* Connection::send called by the application
app_send(bufs, woks) ==
    /\ Usable
    /\ nsends < MaxSends
    /\ \E mbuf \in bufs, wok \in woks, build \in Builds :
        LET r == send(next_serial, mbuf, wok, build)
        IN  /\ conn' = IF r.res = "panic" THEN "panic" ELSE conn
            /\ next_serial' = r.next_serial
            /\ nsends' = IF r.passed THEN nsends + 1 ELSE nsends
            /\ out' = IF r.wrote # <<>> THEN Append(out, Wrote("FRAME", "", r.ret)) ELSE out
            /\ last' = [Last("send", r.res) EXCEPT !.ret = r.ret, !.arg = <<mbuf>>,
                                                   !.buf = <<r.buf>>, !.wrote = r.wrote]
    /\ UNCHANGED <<sock, queue, cs, closed, wire, arrived, orig>>

\* the send that opens call_sync: the Hello of say_hello, or the application's
call_sync_send(caller, bufs, woks) ==
    /\ nsends < MaxSends
    /\ \E mbuf \in bufs, wok \in woks, build \in Builds :
        LET r == send(next_serial, mbuf, wok, build)
        IN  /\ conn' = IF r.res = "panic" THEN "panic"
                       ELSE IF caller = "hello" THEN (IF r.res = "Ok" THEN "hello" ELSE "failed")
                       ELSE conn
            /\ next_serial' = r.next_serial
            /\ nsends' = IF r.passed THEN nsends + 1 ELSE nsends
            /\ out' = IF r.wrote # <<>> THEN Append(out, Wrote("FRAME", "", r.ret)) ELSE out
            /\ cs' = IF r.res = "Ok"
                     THEN [active |-> TRUE, caller |-> caller, serial |-> r.ret, lq |-> <<>>]
                     ELSE Idle
            /\ last' = [Last("call_sync", IF r.res = "Ok" THEN "pending" ELSE r.res)
                            EXCEPT !.ret = r.ret, !.arg = <<mbuf>>,
                                   !.buf = <<r.buf>>, !.wrote = r.wrote,
                                   !.call = IF r.res = "Ok" THEN "pending" ELSE r.res]
    /\ UNCHANGED <<sock, queue, closed, wire, arrived, orig>>

hello_send ==
    /\ conn = "auth"
    /\ call_sync_send("hello", {HelloBuf}, BOOLEAN)

app_call_sync(bufs, woks) ==
    /\ Usable
    /\ call_sync_send("app", bufs, woks)

\* one turn of the loop of call_sync: read_msg, then the match
call_sync_read(inputs) ==
    /\ cs.active
    /\ conn \in {"hello", "ready"}
    /\ \E i \in InputsNow(inputs) :
        LET r == read_msg(queue, i)
        IN  /\ closed' = r.closed
            /\ wire' = IF r.wire THEN <<>> ELSE wire
            /\ arrived' = Arrived(r)
            /\ UNCHANGED <<sock, next_serial, out, nsends>>
            /\ IF r.res # "Ok"
               THEN /\ cs' = Idle
                    /\ queue' = r.queue
                    /\ orig' = Noted(r)
                    /\ conn' = IF cs.caller = "hello" THEN "failed" ELSE conn
                    /\ last' = [Last("call_sync", r.res) EXCEPT !.ret = cs.serial,
                                    !.consumed = r.consumed, !.wire = r.wire,
                                    !.call = r.res, !.input = <<i>>]
               ELSE LET t == call_sync_turn(r.msg[1], cs.serial, cs.lq, r.queue)
                        hello == IF cs.caller = "hello" THEN say_hello(t.body) ELSE "Ok"
                    IN  /\ queue' = t.queue
                        /\ cs' = IF t.res = "loop" THEN [cs EXCEPT !.lq = t.lq] ELSE Idle
                        /\ orig' = IF t.res = "Ok" THEN Without(Noted(r), r.msg[1].serial)
                                   ELSE Noted(r)
                        /\ conn' = IF t.res = "panic" THEN "panic"
                                   ELSE IF t.res = "loop" THEN conn
                                   ELSE IF cs.caller = "hello"
                                        THEN (IF hello = "Ok" THEN "ready" ELSE "failed")
                                        ELSE conn
                        /\ last' = [Last("call_sync",
                                         IF t.res = "loop" THEN "pending"
                                         ELSE IF t.res = "Ok" THEN hello ELSE t.res)
                                        EXCEPT !.ret = cs.serial, !.msg = r.msg,
                                               !.body = t.body, !.consumed = r.consumed,
                                               !.wire = r.wire,
                                               !.call = IF t.res = "loop" THEN "pending"
                                                        ELSE t.res,
                                               !.orig = OrigOf(r),
                                               !.input = IF r.wire THEN <<i>> ELSE <<>>]

\* Connection::read_msg called by the application
app_read_msg(inputs) ==
    /\ Usable
    /\ \E i \in InputsNow(inputs) :
        LET r == read_msg(queue, i)
        IN  /\ closed' = r.closed
            /\ wire' = IF r.wire THEN <<>> ELSE wire
            /\ arrived' = Arrived(r)
            /\ queue' = r.queue
            /\ orig' = IF r.res = "Ok" THEN Without(Noted(r), r.msg[1].serial)
                       ELSE Noted(r)
            /\ last' = [Last("read_msg", r.res) EXCEPT !.msg = r.msg,
                            !.consumed = r.consumed, !.wire = r.wire,
                            !.orig = OrigOf(r),
                            !.input = IF r.wire THEN <<i>> ELSE <<>>]
    /\ UNCHANGED <<conn, sock, next_serial, cs, out, nsends>>

\* ------------------------------------------------------------ specifications
\* The connection and its queue: every operation, on the frames of WireFrames.
Next ==
    \/ connect_open
    \/ send_nul_byte
    \/ auth_write
    \/ auth_read(FewResponses)
    \/ hello_send
    \/ app_send(FewBufs, {TRUE})
    \/ app_call_sync(FewBufs, {TRUE})
    \/ call_sync_read(TransportInputs)
    \/ app_read_msg(TransportInputs)

Spec == Init /\ [][Next]_vars

\* send and the serial counter: every buffer of MsgBufs, writes that fail.
NextSend ==
    \/ connect_open
    \/ send_nul_byte
    \/ auth_write
    \/ auth_read(FewResponses)
    \/ hello_send
    \/ app_send(MsgBufs, BOOLEAN)
    \/ app_call_sync(MsgBufs \cup NonCallBufs, BOOLEAN)
    \/ call_sync_read(ReplyInputs)

SpecSend == Init /\ [][NextSend]_vars

\* The handshake: every response of AuthResponses.
NextAuth ==
    \/ connect_open
    \/ send_nul_byte
    \/ auth_write
    \/ auth_read(AuthResponses)
    \/ hello_send
    \/ call_sync_read(HelloInputs)

SpecAuth == Init /\ [][NextAuth]_vars

\* The entry points that read the environment, then the handshake.
InitEnv ==
    /\ conn = "start"
    /\ sock = "none"
    /\ next_serial = 1
    /\ queue = <<>>
    /\ cs = Idle
    /\ out = <<>>
    /\ closed = FALSE
    /\ wire = <<>>
    /\ arrived = 0
    /\ orig = <<>>
    /\ nsends = 0
    /\ last = Last("none", "none")

NextEnv ==
    \/ connect_entry
    \/ connect_open
    \/ send_nul_byte
    \/ auth_write
    \/ auth_read(FewResponses)
    \/ hello_send
    \/ call_sync_read(HelloInputs)

SpecEnv == InitEnv /\ [][NextEnv]_vars

\* The frame reader: a connection that connect_* returned, with nothing or one
\* signal in its queue, and one input of CodecInputs on the wire, which
\* read_msg or call_sync reads.
InitCodec ==
    /\ conn = "ready"
    /\ sock \in {"Uds", "Tcp"}
    /\ next_serial = 2
    /\ \E skipped \in BOOLEAN :
        LET reply == read_frame(FrameOf(ReplyTo(1), OneString),
                                IF skipped THEN 2 ELSE 1, FALSE, 0, 0)
            signal == read_frame(FrameOf(<<>>, Empty), 1, FALSE, 0, 0).msg
        IN  /\ queue = IF skipped THEN signal ELSE <<>>
            /\ orig = IF skipped THEN signal ELSE <<>>
            /\ arrived = IF skipped THEN 2 ELSE 1
            /\ last = [Last("call_sync", "Ok") EXCEPT
                          !.ret = 1, !.msg = reply.msg, !.body = <<Str(1)>>,
                          !.consumed = reply.consumed, !.wire = TRUE, !.call = "Ok",
                          !.orig = reply.msg,
                          !.input = <<Input(FrameOf(ReplyTo(1), OneString), FALSE, 0, 0)>>]
    /\ cs = Idle
    /\ out = <<Wrote("NUL", "", 0), Wrote("AUTH", Mechanism(sock), 0),
               Wrote("BEGIN", "", 0), Wrote("FRAME", "", 1)>>
    /\ closed = FALSE
    /\ wire \in {<<i>> : i \in CodecInputs}
    /\ nsends = 1

NextCodec ==
    \/ app_call_sync(FewBufs, {TRUE})
    \/ call_sync_read({})
    \/ app_read_msg({})

SpecCodec == InitCodec /\ [][NextCodec]_vars

\* call_sync on a connection that connect_* returned, with nothing or one
\* signal in its queue; the transport is fair: while a call is in its loop, the
\* loop goes on and the peer ends up sending the reply or ending the stream.
InitLive ==
    /\ conn = "ready"
    /\ sock \in {"Uds", "Tcp"}
    /\ next_serial = 2
    /\ \E skipped \in BOOLEAN :
        LET reply == read_frame(FrameOf(ReplyTo(1), OneString),
                                IF skipped THEN 2 ELSE 1, FALSE, 0, 0)
            signal == read_frame(FrameOf(<<>>, Empty), 1, FALSE, 0, 0).msg
        IN  /\ queue = IF skipped THEN signal ELSE <<>>
            /\ orig = IF skipped THEN signal ELSE <<>>
            /\ arrived = IF skipped THEN 2 ELSE 1
            /\ last = [Last("call_sync", "Ok") EXCEPT
                          !.ret = 1, !.msg = reply.msg, !.body = <<Str(1)>>,
                          !.consumed = reply.consumed, !.wire = TRUE, !.call = "Ok",
                          !.orig = reply.msg,
                          !.input = <<Input(FrameOf(ReplyTo(1), OneString), FALSE, 0, 0)>>]
    /\ cs = Idle
    /\ out = <<Wrote("NUL", "", 0), Wrote("AUTH", Mechanism(sock), 0),
               Wrote("BEGIN", "", 0), Wrote("FRAME", "", 1)>>
    /\ closed = FALSE
    /\ wire = <<>>
    /\ nsends = 1

NextLive ==
    \/ app_call_sync({MsgBuf(24, 24, "m")}, {TRUE})
    \/ call_sync_read(LiveInputs)

SpecLive ==
    InitLive /\ [][NextLive]_vars /\ WF_vars(call_sync_read(EndingInputs))

\* ------------------------------------------------------------ claims
\* the state right after send ran (on its own or at the head of call_sync)
SendStep == last.op \in {"send", "call_sync"} /\ last.arg # <<>>
\* the state right after call_sync returned Ok
CallReturned == last.op = "call_sync" /\ last.call = "Ok"
\* the state right after read_msg returned a message to the application
Delivered == last.op = "read_msg" /\ last.res = "Ok"
\* message m carries a ReplySerial field that holds the u32 s
HasReply(m, s) == ReplySerial \in DOMAIN m.headers /\ m.headers[ReplySerial] = U32(s)

\* C1: call_sync with serial S goes on over every message read_msg gives it
\* that carries no ReplySerial equal to S, and returns Ok at the first one that
\* does, with exactly that message's body; it never returns the body of a
\* message whose ReplySerial is absent or differs from S.
C1_ReplyMatched ==
    (last.op = "call_sync" /\ last.msg # <<>>) =>
        /\ (last.call = "Ok") <=> HasReply(last.msg[1], last.ret)
        /\ last.call = "Ok" => last.body = last.msg[1].body
        /\ last.call = "pending" => cs.active /\ cs.serial = last.ret

\* C1 witness: the application's call_sync (serial 2) returned a body after it
\* skipped a reply to serial 1.
C1_Witness ==
    /\ CallReturned /\ conn = "ready" /\ last.ret = 2
    /\ last.body = <<U32(7)>>
    /\ \E j \in DOMAIN queue : HasReply(orig[queue[j].serial], 1)

\* C2: read_msg hands out the messages in the order they arrived: when it
\* returns a message, no message that arrived before it is still owed to the
\* caller (read, skipped by a call_sync, and not yet returned).
C2_ArrivalOrder ==
    Delivered => \A k \in DOMAIN orig : k > last.msg[1].serial

\* C3: a message that call_sync skipped is returned by read_msg exactly as it
\* was read from the transport (headers, serial, type, flags and body).
C3_SkippedUnchanged ==
    (Delivered /\ ~last.wire) => last.msg = last.orig

\* C4: the k-th send that passes the length check (the Hello of connect_* is
\* the first) is assigned serial k and, when its write succeeds, returns k; the
\* first send or call_sync of the application uses serial 2.
C4_SerialIsCount ==
    /\ (SendStep /\ last.res \notin {"BadData", "panic"} /\ nsends < SerialMod) =>
           /\ last.buf[1].serf = nsends
           /\ last.res \in {"Ok", "pending"} => last.ret = nsends
           /\ next_serial = (nsends + 1) % SerialMod
    /\ (conn = "ready" /\ nsends = 1) => next_serial = 2

\* C4 witness: the application's first send returned serial 2.
C4_Witness ==
    /\ SendStep /\ last.op = "send" /\ last.res = "Ok"
    /\ last.ret = 2 /\ nsends = 2 /\ out[Len(out)] = Wrote("FRAME", "", 2)

\* C5: for a buffer of length L >= 16 whose length field holds the header
\* length H <= L the builder put there, send writes, in one write, the buffer
\* with the length field set to L - H (no underflow) and the serial field set to
\* the serial it returns, and nothing else changed.
C5_Patched ==
    (SendStep /\ last.arg[1].len >= MinHeader /\ last.arg[1].lenf <= last.arg[1].len
        /\ last.res # "panic") =>
        LET b == last.arg[1]
        IN  /\ b.len - b.lenf \in 0..(LenMod - 1)
            /\ last.buf = <<[b EXCEPT !.lenf = b.len - b.lenf, !.serf = last.ret]>>
            /\ last.res \in {"Ok", "pending"} => last.wrote = last.buf
            /\ last.res \notin {"Ok", "pending"} => last.wrote = <<>>

\* C5 witness: a 24-byte buffer with a 16-byte header went out with body length 8.
C5_Witness ==
    /\ SendStep /\ last.res = "Ok"
    /\ last.arg = <<MsgBuf(24, 16, "m")>>
    /\ last.wrote # <<>> /\ last.wrote[1].lenf = 8 /\ last.wrote[1].serf = 2

\* C6: read_msg on a non-empty queue removes and returns the oldest queued
\* message without reading the transport, keeps the order of the rest and
\* leaves next_serial alone; it reads the transport only on an empty queue.
C6_QueueFirst ==
    [][last'.op = "read_msg" =>
         IF queue # <<>>
         THEN /\ last'.res = "Ok"
              /\ last'.msg = <<queue[1]>>
              /\ queue' = Tail(queue)
              /\ ~last'.wire /\ last'.consumed = 0
              /\ UNCHANGED <<next_serial, arrived, closed, out, nsends>>
         ELSE last'.wire /\ queue' = queue]_vars

\* C6 witness: read_msg returned a queued message and another one stays queued.
C6_Witness == Delivered /\ ~last.wire /\ Len(queue) >= 1

\* C7: send, and call_sync, on a buffer shorter than 16 bytes fail with
\* BadData and change nothing: no write, no read, next_serial, the buffer and
\* the queue as they were.
C7_ShortBufferRejected ==
    [][(last'.op \in {"send", "call_sync"} /\ last'.arg # <<>>
            /\ last'.arg[1].len < MinHeader) =>
         /\ last'.res = "BadData"
         /\ last'.wrote = <<>>
         /\ last'.buf = last'.arg
         /\ ~cs'.active
         /\ UNCHANGED <<next_serial, queue, out, arrived, closed, nsends, orig, conn>>]_vars

\* C7 witness: call_sync was refused a 15-byte buffer while a message was queued.
C7_Witness ==
    /\ SendStep /\ last.op = "call_sync" /\ last.arg[1].len = 15
    /\ last.res = "BadData" /\ Len(queue) >= 1 /\ next_serial = 2

\* the response line read_line is to return: up to the first CR LF
FirstLine(chars) ==
    LET i == CHOOSE i \in 1..(Len(chars) - 1) :
                /\ chars[i] = "CR" /\ chars[i + 1] = "LF"
                /\ \A j \in 1..(i - 1) : ~(chars[j] = "CR" /\ chars[j + 1] = "LF")
    IN  SubSeq(chars, 1, i + 1)
BeginsOK(line) == Len(line) >= 3 /\ SubSeq(line, 1, 3) = <<"O", "K", "SP">>
NoBegin == \A i \in DOMAIN out : out[i].k \notin {"BEGIN", "FRAME"}
AuthRead == last.op = "auth" /\ last.arg # <<>>

\* C8: when the peer's first line does not begin with "OK ", connect_* fails
\* with AuthFailed; BEGIN is not written, no frame is written, and nothing
\* follows (no Connection is returned).
C8_RejectedNoBegin ==
    /\ (AuthRead /\ HasCRLF(last.arg[1].chars)
            /\ ~BeginsOK(FirstLine(last.arg[1].chars))) =>
           /\ last.res = "AuthFailed"
           /\ conn = "failed"
           /\ NoBegin
    /\ conn = "failed" => ~ENABLED NextAuth

\* C8 witness: the peer answered "OK" without the space.
C8_Witness ==
    /\ AuthRead /\ last.res = "AuthFailed"
    /\ last.line = <<"O", "K", "CR", "LF">>
    /\ out = <<Wrote("NUL", "", 0), Wrote("AUTH", Mechanism(sock), 0)>>

\* the stream ended before a CR LF was seen
EndsEarly == AuthRead /\ ~HasCRLF(last.arg[1].chars) /\ last.arg[1].end = "eof"

\* C9 as stated: the end of the stream before a terminator gives AuthFailed.
C9_EofAuthFailed == EndsEarly => (last.res = "AuthFailed" /\ NoBegin)

\* C9, amended: the end of the stream before a terminator makes connect_* fail
\* with Disconnected, and BEGIN is not written.
C9_EofDisconnected ==
    EndsEarly => (last.res = "Disconnected" /\ conn = "failed" /\ NoBegin)

\* C9 witness: the stream ended after "OK " and before any CR LF.
C9_Witness ==
    /\ EndsEarly /\ last.arg[1].chars = <<"O", "K", "SP">>
    /\ last.res = "Disconnected"

\* the state right after a frame was read from the transport
WireRead == last.op \in {"read_msg", "call_sync"} /\ last.input # <<>>
\* the frame carries a Signature field that holds a signature
SigOk(f) ==
    /\ \E i \in DOMAIN f.fields : f.fields[i][1] = Signature
    /\ LET i == CHOOSE i \in DOMAIN f.fields :
                    /\ f.fields[i][1] = Signature
                    /\ \A j \in DOMAIN f.fields : f.fields[j][1] = Signature => j <= i
       IN  f.fields[i][2].t = "g"
Pad8(n) == ((n + 7) \div 8) * 8
\* the bytes the reader asks for on frame f when the stream does not end
Requested(f) ==
    IF ~f.hdrOk THEN 16 + f.n
    ELSE IF f.body_len > 0 /\ SigOk(f) THEN Pad8(16 + f.n) + f.body_len
    ELSE Pad8(16 + f.n)

\* C10: when the stream ends before a byte count the reader asks for is read
\* in full (fixed header, array length, array, padding or body), read_msg, and
\* a call_sync reading the stream, fail with Disconnected; a message is
\* returned only for a frame that was read whole.
C10_ShortReadDisconnects ==
    WireRead =>
        LET i == last.input[1]
        IN  /\ (i.eof /\ i.ioerrAt = 0 /\ i.avail < Requested(i.f)) =>
                   (last.res = "Disconnected" /\ last.msg = <<>> /\ last.consumed = i.avail)
            /\ last.msg # <<>> =>
                   /\ ~(i.eof /\ i.avail < Pad8(16 + i.f.n) + i.f.body_len)
                   /\ last.consumed = Pad8(16 + i.f.n) + i.f.body_len

\* C10 witness: a call_sync met the end of the stream one byte before the end
\* of a body.
C10_Witness ==
    /\ WireRead /\ last.op = "call_sync" /\ last.res = "Disconnected"
    /\ last.input[1].eof /\ last.input[1].f.body_len = 4 /\ last.input[1].f.n = 3
    /\ last.input[1].avail = 27 /\ last.consumed = 27

\* the writes of a whole handshake on a socket of kind s, in order
HandshakeWrites(s) ==
    <<Wrote("NUL", "", 0), Wrote("AUTH", Mechanism(s), 0), Wrote("BEGIN", "", 0),
      Wrote("FRAME", "", 1)>>
IsPrefix(a, b) == Len(a) <= Len(b) /\ a = SubSeq(b, 1, Len(a))
\* the first body value is a string
FirstIsString(body) == Len(body) > 0 /\ body[1].t = "s"

\* C11: connect_* writes the NUL byte, the AUTH line, BEGIN (only in the step
\* that read a line beginning "OK ") and the Hello frame with serial 1, in this
\* order and nothing between; the Connection is returned only by the step that
\* received a reply with ReplySerial 1 whose first body value is a string, and
\* a reply to the Hello without one makes connect_* fail with BadData.
C11_HandshakeOrder ==
    [][/\ IsPrefix(SubSeq(out', 1, Min(Len(out'), 4)), HandshakeWrites(sock'))
       /\ (conn' \in {"new", "open"}) => out' = <<>>
       /\ (conn' = "nul") => Len(out') = 1
       /\ (conn' = "sent") => Len(out') = 2
       /\ (conn' = "auth") => Len(out') = 3
       /\ (conn' \in {"hello", "ready"}) => Len(out') >= 4
       /\ (Len(out') > Len(out) /\ out'[Len(out')].k = "BEGIN") =>
              (last'.op = "auth" /\ BeginsOK(last'.line))
       /\ (conn' = "ready" /\ conn # "ready") =>
              /\ conn = "hello" /\ last'.op = "call_sync" /\ last'.res = "Ok"
              /\ last'.msg # <<>> /\ HasReply(last'.msg[1], 1)
              /\ FirstIsString(last'.msg[1].body)
              /\ out' = HandshakeWrites(sock')
       /\ (conn = "hello" /\ last'.op = "call_sync" /\ last'.msg # <<>>
              /\ HasReply(last'.msg[1], 1) /\ ~FirstIsString(last'.msg[1].body)) =>
              (conn' = "failed" /\ last'.res = "BadData")]_vars

\* C11 witness: connect_* returned the Connection after the whole handshake,
\* with one frame skipped before the reply to the Hello.
C11_Witness ==
    /\ conn = "ready" /\ out = HandshakeWrites(sock)
    /\ last.op = "call_sync" /\ last.res = "Ok" /\ last.ret = 1
    /\ Len(queue) = 1

\* the header of the frame read last was read whole (array and padding) and
\* its array demarshals
HeaderRead ==
    /\ WireRead
    /\ LET i == last.input[1]
       IN  /\ i.ioerrAt = 0 /\ i.f.hdrOk
           /\ ~(i.eof /\ i.avail < Pad8(16 + i.f.n))

\* C12: a frame whose fixed header declares a body and whose header fields hold
\* no Signature field, or one that holds no signature, gives DemarshalError and
\* no message; a frame that declares no body gives a message with an empty
\* body, and nothing is read after the padding of the header.
C12_BodyNeedsSignature ==
    HeaderRead =>
        LET f == last.input[1].f
        IN  /\ (f.body_len > 0 /\ ~SigOk(f)) =>
                   /\ last.res = "DemarshalError" /\ last.msg = <<>>
                   /\ last.consumed = Pad8(16 + f.n)
            /\ (f.body_len = 0) =>
                   /\ last.msg # <<>> /\ last.msg[1].body = <<>>
                   /\ last.res \in {"Ok", "pending"}
                   /\ last.consumed = Pad8(16 + f.n)

\* C12 witness: read_msg refused a frame with a 4-byte body whose Signature
\* field holds a string.
C12_Witness ==
    /\ HeaderRead /\ last.op = "read_msg" /\ last.res = "DemarshalError"
    /\ last.input[1].f.body_len = 4
    /\ last.input[1].f.fields = <<<<Signature, Str(0)>>>>
    /\ ~last.input[1].eof

\* the state right after connect_system or connect_session read its variable
EntryStep(entry) == last.op = entry /\ last.arg # <<>>

\* C13: connect_session with DBUS_SESSION_BUS_ADDRESS unset fails with
\* NoEnvironment, with no socket opened and nothing written, and nothing
\* follows; connect_system with DBUS_SYSTEM_BUS_ADDRESS unset goes on with
\* unix:path=/var/run/dbus/system_bus_socket; no other step of a connect ends
\* with NoEnvironment.
C13_NoEnvironment ==
    /\ (EntryStep("connect_session") /\ last.arg[1].env = Unset) =>
           /\ last.res = "NoEnvironment" /\ conn = "failed"
           /\ sock = "none" /\ out = <<>>
           /\ ~ENABLED NextEnv
    /\ (EntryStep("connect_system") /\ last.arg[1].env = Unset) =>
           /\ last.res = "Ok" /\ conn = "new" /\ sock = "Uds"
           /\ last.arg[1].addr = <<"unix:path=/var/run/dbus/system_bus_socket">>
           /\ out = <<>>
    /\ last.res = "NoEnvironment" =>
           (EntryStep("connect_session") /\ last.arg[1].env = Unset)

\* C13 witness: connect_session found its variable unset.
C13_Witness ==
    /\ EntryStep("connect_session") /\ last.arg[1].env = Unset
    /\ last.res = "NoEnvironment" /\ out = <<>>

\* C14: call_sync on a buffer that is no METHOD_CALL, or that has the
\* NO_REPLY_EXPECTED flag, panics: it writes nothing and waits for no reply.
C14_PanicsOnNonCall ==
    (last.op = "call_sync" /\ last.arg # <<>>
        /\ last.arg[1].tag \in {"signal", "no_reply"}) =>
        (last.res = "panic" /\ last.wrote = <<>> /\ ~cs.active)

\* C15: every send that passes the length check (its write may fail) advances
\* next_serial by one, modulo 2^SerialBits; the counter never decreases, the
\* overflow wraps and does not make the send fail, and the serial assigned was
\* assigned to no message written before.
C15_SerialNeverReused ==
    [][(last'.op \in {"send", "call_sync"} /\ last'.arg # <<>>
            /\ last'.arg[1].len >= MinHeader
            /\ last'.arg[1].lenf <= last'.arg[1].len) =>
         /\ last'.res # "panic"
         /\ next_serial' = (next_serial + 1) % SerialMod
         /\ next_serial' >= next_serial
         /\ \A i \in DOMAIN out : out[i].k = "FRAME" => out[i].serial # last'.ret]_vars

\* the state right after the AUTH line was written
AuthWritten == last.op = "auth" /\ last.arg = <<>> /\ last.wrote # <<>>
\* the decimal number whose digits, as characters, the hex digits h encode
RECURSIVE DecodeHexDecimal(_, _)
DecodeHexDecimal(h, acc) ==
    IF h = <<>> THEN acc
    ELSE DecodeHexDecimal(Tail(Tail(h)),
                          10 * acc + (CHOOSE d \in 0..9 : HexChars[d + 1] = h[2]))
IsHexOfDecimal(h, uid) ==
    /\ Len(h) >= 2 /\ Len(h) % 2 = 0
    /\ \A i \in 1..Len(h) : IF i % 2 = 1 THEN h[i] = "3"
                                         ELSE \E d \in 0..9 : HexChars[d + 1] = h[i]
    /\ (Len(h) > 2 => h[2] # "0")
    /\ DecodeHexDecimal(h, 0) = uid

\* C16: the AUTH line names EXTERNAL, with the hex of the decimal uid, on a
\* Unix socket and ANONYMOUS on a TCP socket, never the other; one connect
\* writes at most one AUTH line, and after a failed authentication nothing
\* more is done (no second mechanism is tried).
C16_MechanismByTransport ==
    /\ \A i \in DOMAIN out : out[i].k = "AUTH" =>
           out[i].mech = (IF sock = "Uds" THEN "EXTERNAL" ELSE "ANONYMOUS")
    /\ Cardinality({i \in DOMAIN out : out[i].k = "AUTH"}) <= 1
    /\ AuthWritten =>
           /\ out[Len(out)] = Wrote("AUTH", last.wrote[1].mech, 0)
           /\ IF sock = "Uds"
              THEN /\ last.wrote[1].mech = "EXTERNAL"
                   /\ IsHexOfDecimal(last.wrote[1].arg, last.ret)
              ELSE last.wrote[1].mech = "ANONYMOUS"
    /\ (last.op = "auth" /\ last.res # "Ok") =>
           (conn = "failed" /\ ~ENABLED NextAuth)

\* C16 witness: on a Unix socket, with uid 1000, AUTH EXTERNAL 31303030 was
\* written.
C16_Witness ==
    /\ AuthWritten /\ sock = "Uds" /\ last.ret = 1000
    /\ last.wrote[1] = [mech |-> "EXTERNAL", arg |-> <<"3", "1", "3", "0", "3", "0", "3", "0">>]
    /\ out = <<Wrote("NUL", "", 0), Wrote("AUTH", "EXTERNAL", 0)>>

\* C17: the reply call_sync matches is a frame it read from the transport, never
\* a message of Connection.queue: the queue is empty at the match, and after
\* the return it holds exactly the messages the call skipped, oldest first (the
\* peer's serials, which number the frames in arrival order, increase).
C17_SkippedRequeued ==
    [][(last'.op = "call_sync" /\ last'.call = "Ok") =>
         /\ last'.wire
         /\ queue = <<>>
         /\ queue' = cs.lq
         /\ \A j, k \in DOMAIN queue' : j < k => queue'[j].serial < queue'[k].serial
         /\ \A j \in DOMAIN queue' : queue'[j].serial < last'.msg[1].serial]_vars

\* C17 witness: a call_sync of the application returned on the third frame,
\* and the queue holds the first frame, which was in the queue before the call
\* and which the call skipped again.
C17_Witness ==
    /\ CallReturned /\ last.ret = 2 /\ last.wire /\ Len(queue) = 1
    /\ queue[1].serial = 1 /\ last.msg[1].serial = 3

\* the state right after a call_sync of the application returned an error
\* from its loop (its send had succeeded)
CallFailed ==
    /\ conn = "ready" /\ last.op = "call_sync" /\ last.arg = <<>>
    /\ last.call \in {"Disconnected", "IOError", "DemarshalError"}

\* C18: when call_sync returns an error after its send succeeded, every message
\* read and not yet handed out (those queued before the call and those the
\* call skipped) is in Connection.queue, in arrival order.
C18_NoMessageLost ==
    CallFailed =>
        /\ \A k \in DOMAIN orig : \E j \in DOMAIN queue : queue[j].serial = k
        /\ \A j, k \in DOMAIN queue : j < k => queue[j].serial < queue[k].serial

\* C19: with a fair transport a call_sync in its loop ends; it returns Ok at a
\* frame whose ReplySerial is its serial and only there, and an error when the
\* stream ends, a read fails or a frame does not demarshal; every step taken while it is in its loop is a
\* turn of the loop (there is no timeout and no cancellation), and a turn on a
\* message that is not the reply keeps it in the loop with one more skipped
\* message.
C19_CallSyncReturns ==
    /\ cs.active ~> ~cs.active
    /\ [][cs.active =>
            /\ last'.op = "call_sync" /\ last'.ret = cs.serial
            /\ IF last'.msg # <<>>
               THEN IF HasReply(last'.msg[1], cs.serial)
                    THEN ~cs'.active /\ last'.call = "Ok"
                    ELSE /\ cs'.active /\ cs'.serial = cs.serial
                         /\ Len(cs'.lq) = Len(cs.lq) + 1
                         /\ last'.call = "pending"
               ELSE /\ ~cs'.active
                    /\ last'.call \in {"Disconnected", "IOError", "DemarshalError"}
                    /\ last'.input # <<>>
                    /\ \/ last'.input[1].eof
                       \/ last'.input[1].ioerrAt # 0
                       \/ ~last'.input[1].f.hdrOk]_vars

\* C19 witness: a call_sync is in its loop with two skipped messages.
C19_Witness ==
    /\ cs.active /\ cs.caller = "app" /\ Len(cs.lq) = 2
    /\ last.op = "call_sync" /\ last.call = "pending"

\* the padding after a header array of n bytes, as the claim gives it
PadAfter(n) == (8 - ((16 + n) % 8)) % 8

\* C20: after the 12-byte header, the 4-byte length and the n bytes of the
\* array, the reader reads exactly (8 - (16 + n) mod 8) mod 8 bytes of padding,
\* none when 16 + n is a multiple of 8: a stream that ends inside the padding
\* gives Disconnected, a frame without a body that ends with its padding is
\* read whole, and a frame read whole took pad8(16 + n) + body_len bytes.
C20_PaddingToEight ==
    (WireRead /\ last.input[1].ioerrAt = 0 /\ last.input[1].f.hdrOk) =>
        LET i == last.input[1]
            n == i.f.n
            padded == 16 + n + PadAfter(n)
        IN  /\ PadAfter(n) \in 0..7 /\ padded % 8 = 0 /\ padded = Pad8(16 + n)
            /\ last.msg # <<>> => last.consumed = padded + i.f.body_len
            /\ (i.eof /\ i.avail >= 16 + n /\ i.avail < padded) =>
                   (last.res = "Disconnected" /\ last.consumed = i.avail)
            /\ (i.eof /\ i.avail = padded /\ i.f.body_len = 0) =>
                   (last.msg # <<>> /\ last.consumed = padded)
            /\ (~i.eof /\ i.f.body_len > 0 /\ ~SigOk(i.f)) => last.consumed = padded

\* C20 witness: a frame with an 8-byte array and no body was read from a
\* stream that ends after its 24 bytes: no padding was read.
C20_Witness ==
    /\ WireRead /\ last.op = "read_msg" /\ last.res = "Ok"
    /\ last.input[1].f.n = 8 /\ last.input[1].f.body_len = 0
    /\ last.input[1].eof /\ last.input[1].avail = 24 /\ last.consumed = 24

====
